---- MODULE Spec2Model ----
(***************************************************************************)
(* County Business Patterns: the Counties data frame of src/cbp/cbp.py.    *)
(*                                                                         *)
(* Spec  models Counties.__init__ (argument checks, the HTTP GET, the      *)
(*       integer casts, the employment imputation, the csv read).          *)
(* QSpec models the query methods (get_county, two_digit, three_digit,     *)
(*       four_digit, total) on a constructed Counties object.              *)
(*                                                                         *)
(* Strings whose characters the code inspects (NAICS codes, the raw EMP    *)
(* and ESTAB cells of the JSON response) are tuples of one-character       *)
(* strings; the other strings are TLA+ strings.                            *)
(***************************************************************************)
EXTENDS Integers, Sequences, FiniteSets, TLC

VARIABLES
    read_from,    \* __init__ argument
    key,          \* __init__ argument
    filepath,     \* __init__ argument
    impute_emp,   \* __init__ argument
    pc,           \* position in __init__: start, get, raise_for_status, build, read_csv, done, failed
    err,          \* the exception that ended __init__, or NoError
    netCalls,     \* number of requests.get calls issued
    fileReads,    \* number of pd.read_csv calls issued
    req,          \* the HTTP response: status code and body (header row removed)
    csv,          \* the table held by the csv file that was read
    self,         \* the Counties data frame
    call,         \* the last query method called on self, with its county argument
    result,       \* the data frame returned by the last query
    raised        \* the exception raised by the last query, or NoError

vars == <<read_from, key, filepath, impute_emp, pc, err, netCalls, fileReads,
          req, csv, self, call, result, raised>>

initVars == <<read_from, key, filepath, impute_emp, pc, err, netCalls, fileReads, req, csv>>
queryVars == <<call, result, raised>>

----------------------------------------------------------------------------
(* Bounds *)

MaxRows == 2        \* data rows of an API response or of a csv file (Spec)
MaxQueryRows == 2   \* rows of the data frame the queries run on (QSpec)

----------------------------------------------------------------------------
(* Python values *)

PyNone == "<None>"
NoError == "<no error>"
NaN == -1           \* a missing numeric cell of a csv file

\* `not x` for a str-or-None argument
Falsy(x) == x = PyNone \/ x = ""

RECURSIVE SeqsUpTo(_, _)
SeqsUpTo(S, n) ==
    IF n = 0 THEN {<<>>}
    ELSE LET shorter == SeqsUpTo(S, n - 1)
         IN  shorter \cup {Append(s, x) : s \in {t \in shorter : Len(t) = n - 1}, x \in S}

emp_imputation ==
    [f \in {"a", "b", "c", "e", "f", "g", "h", "i", "j", "k", "l", "m"} |->
        CASE f = "a" -> 10
          [] f = "b" -> 60
          [] f = "c" -> 175
          [] f = "e" -> 375
          [] f = "f" -> 750
          [] f = "g" -> 1750
          [] f = "h" -> 3750
          [] f = "i" -> 7500
          [] f = "j" -> 17500
          [] f = "k" -> 37500
          [] f = "l" -> 75000
          [] f = "m" -> 110000]

DigitVal ==
    [c \in {"0", "1", "2", "3", "4", "5", "6", "7", "8", "9"} |->
        CASE c = "0" -> 0 [] c = "1" -> 1 [] c = "2" -> 2 [] c = "3" -> 3 [] c = "4" -> 4
          [] c = "5" -> 5 [] c = "6" -> 6 [] c = "7" -> 7 [] c = "8" -> 8 [] c = "9" -> 9]

\* int(s) succeeds: s is a non-empty run of decimal digits
IsIntLiteral(s) == Len(s) > 0 /\ \A i \in DOMAIN s : s[i] \in DOMAIN DigitVal

\* int(s) for a decimal literal
RECURSIVE int(_)
int(s) ==
    IF Len(s) = 0 THEN 0
    ELSE 10 * int(SubSeq(s, 1, Len(s) - 1)) + DigitVal[s[Len(s)]]

----------------------------------------------------------------------------
(* Data frames: a set of column names and a sequence of rows *)

NoDataset == [columns |-> {}, rows |-> <<>>]

RawColumns == {"EMP", "EMP_F", "ESTAB", "NAICS2012", "county"}
Columns == RawColumns \ {"EMP_F"}

\* results[variable].astype(int) for EMP and ESTAB succeeds on every row
CastOk(rows) ==
    \A i \in DOMAIN rows : IsIntLiteral(rows[i].EMP) /\ IsIntLiteral(rows[i].ESTAB)

\* results[variable] = results[variable].astype(int), for EMP and ESTAB
astype(rows) ==
    [i \in DOMAIN rows |-> [rows[i] EXCEPT !.EMP = int(@), !.ESTAB = int(@)]]

\* the lambda of data.apply finds every non-empty flag in emp_imputation
ImputeOk(rows) ==
    \A i \in DOMAIN rows : rows[i].EMP_F # "" => rows[i].EMP_F \in DOMAIN emp_imputation

\* data['EMP'] = data.apply(lambda x: emp_imputation[x.EMP_F] if x.EMP_F else x.EMP, axis=1)
impute(rows) ==
    [i \in DOMAIN rows |->
        IF rows[i].EMP_F # "" THEN [rows[i] EXCEPT !.EMP = emp_imputation[rows[i].EMP_F]]
        ELSE rows[i]]

\* the drop left out
drop_EMP_F_skipped(rows) == rows

\* data.drop('EMP_F', axis=1, inplace=True)
drop_EMP_F(rows) ==
    [i \in DOMAIN rows |-> [c \in DOMAIN rows[i] \ {"EMP_F"} |-> rows[i][c]]]

----------------------------------------------------------------------------
(* Inputs of Spec *)

NoCall == [op |-> "none", county |-> [type |-> "NoneType", val |-> <<>>]]

\* raise_for_status raises HTTPError for a 4xx or 5xx status
StatusCodes == {200, 404, 500}
HTTPError(status) == status >= 400

Flags == DOMAIN emp_imputation \cup {"", "D"}

\* A data row of the JSON response; every cell arrives as a string.  The
\* default variable list is requested, so EMP, EMP_F and ESTAB are present.
ApiRows ==
    [county : {"013"}, NAICS2012 : {<<"1", "1">>}, EMP : {<<>>, <<"1", "2">>},
     EMP_F : Flags, ESTAB : {<<"3">>}]

ApiBodies == SeqsUpTo(ApiRows, MaxRows)

\* A csv file: with or without an EMP_F column, EMP possibly missing.
CsvRowsFlagged ==
    [county : {"013"}, NAICS2012 : {<<"1", "1">>}, EMP : {NaN, 12},
     EMP_F : {"", "a"}, ESTAB : {3}]
CsvRowsClean ==
    [county : {"013"}, NAICS2012 : {<<"1", "1">>}, EMP : {NaN, 12}, ESTAB : {3}]

CsvFiles ==
    {[columns |-> RawColumns, rows |-> r] : r \in SeqsUpTo(CsvRowsFlagged, MaxRows)}
    \cup {[columns |-> Columns, rows |-> r] : r \in SeqsUpTo(CsvRowsClean, MaxRows)}

Init ==
    /\ read_from \in {"api", "csv", "xml"}
    /\ key \in {PyNone, "", "KEY"}
    /\ filepath \in {PyNone, "cbp.csv"}
    /\ impute_emp \in BOOLEAN
    /\ pc = "start"
    /\ err = NoError
    /\ netCalls = 0
    /\ fileReads = 0
    /\ req = [status_code |-> 0, body |-> <<>>]
    /\ csv = NoDataset
    /\ self = NoDataset
    /\ call = NoCall
    /\ result = NoDataset
    /\ raised = NoError

----------------------------------------------------------------------------
(* Counties.__init__ *)

\* `if key is None:`
NotGiven_isNone(param) == param = PyNone

\* `if not key:` / `if not filepath:`
NotGiven(param) == Falsy(param)

Fail(e) ==
    /\ pc' = "failed"
    /\ err' = e
    /\ UNCHANGED <<read_from, key, filepath, impute_emp, netCalls, fileReads, req, csv, self>>
    /\ UNCHANGED queryVars

Goto(label) ==
    /\ pc' = label
    /\ UNCHANGED <<read_from, key, filepath, impute_emp, err, netCalls, fileReads, req, csv, self>>
    /\ UNCHANGED queryVars

\* the branch on read_from and the check of the parameter the mode needs
CheckArgs ==
    /\ pc = "start"
    /\ \/ read_from = "api" /\ NotGiven(key) /\ Fail("ValueError: must provide API key")
       \/ read_from = "api" /\ ~NotGiven(key) /\ Goto("get")
       \/ read_from = "csv" /\ NotGiven(filepath) /\ Fail("ValueError: must provide path to file")
       \/ read_from = "csv" /\ ~NotGiven(filepath) /\ Goto("read_csv")
       \/ read_from \notin {"api", "csv"} /\ Fail("ValueError: valid options are api and csv")

\* req = requests.get(url): one request; it returns a response or raises
\* an exception that is no HTTPError (connection refused, timeout)
Get ==
    /\ pc = "get"
    /\ netCalls' = netCalls + 1
    /\ \/ /\ \E s \in StatusCodes :
               \E b \in (IF HTTPError(s) THEN {<<>>} ELSE ApiBodies) :
                   req' = [status_code |-> s, body |-> b]
          /\ pc' = "raise_for_status"
          /\ err' = err
       \/ /\ req' = req
          /\ pc' = "failed"
          /\ err' = "ConnectionError"
    /\ UNCHANGED <<read_from, key, filepath, impute_emp, fileReads, csv, self>>
    /\ UNCHANGED queryVars

\* a failure status answered by a second request
RaiseForStatus_retry ==
    /\ pc = "raise_for_status"
    /\ \/ HTTPError(req.status_code) /\ Goto("get")
       \/ ~HTTPError(req.status_code) /\ Goto("build")

\* req.raise_for_status(); except HTTPError: print err; sys.exit(1)
RaiseForStatus ==
    /\ pc = "raise_for_status"
    /\ \/ HTTPError(req.status_code) /\ Fail("SystemExit")
       \/ ~HTTPError(req.status_code) /\ Goto("build")

\* the frame handed to DataFrame.__init__ in API mode
ApiData(body) ==
    LET results == astype(body)
        data == IF impute_emp THEN impute(results) ELSE results
    IN  [columns |-> Columns, rows |-> drop_EMP_F(data)]

\* read_json, the casts, the imputation, the drop of EMP_F, DataFrame.__init__
Build ==
    /\ pc = "build"
    /\ \/ ~CastOk(req.body) /\ Fail("ValueError: invalid literal for int()")
       \/ CastOk(req.body) /\ impute_emp /\ ~ImputeOk(req.body) /\ Fail("KeyError")
       \/ /\ CastOk(req.body)
          /\ impute_emp => ImputeOk(req.body)
          /\ self' = ApiData(req.body)
          /\ pc' = "done"
          /\ UNCHANGED <<read_from, key, filepath, impute_emp, err, netCalls, fileReads, req, csv>>
          /\ UNCHANGED queryVars

\* data = pd.read_csv(filepath, dtype=dtypes); DataFrame.__init__(self, data=data)
ReadCsv ==
    /\ pc = "read_csv"
    /\ fileReads' = fileReads + 1
    /\ \/ /\ \E f \in CsvFiles : csv' = f /\ self' = f
          /\ pc' = "done"
          /\ err' = err
       \/ /\ csv' = csv /\ self' = self
          /\ pc' = "failed"
          /\ err' = "IOError"
    /\ UNCHANGED <<read_from, key, filepath, impute_emp, netCalls, req>>
    /\ UNCHANGED queryVars

Next == CheckArgs \/ Get \/ RaiseForStatus \/ Build \/ ReadCsv

Spec == Init /\ [][Next]_vars

----------------------------------------------------------------------------
(* County selectors: a Python value is its type and its elements; an      *)
(* element is a str or an int, written by its repr.                        *)

Elem(t, r) == [type |-> t, repr |-> r]
None == [type |-> "NoneType", val |-> <<>>]
PyStr(s) == [type |-> "str", val |-> <<Elem("str", s)>>]
PyInt(r) == [type |-> "int", val |-> <<Elem("int", r)>>]
PyList(elems) == [type |-> "list", val |-> elems]
PySet(elems) == [type |-> "set", val |-> elems]

Selectors ==
    {None, PyStr("013"), PyStr(""), PyInt("0"), PyInt("13"),
     PyList(<<>>), PyList(<<Elem("str", "013"), Elem("str", "015")>>), PyList(<<Elem("int", "13")>>),
     PySet(<<Elem("str", "013")>>)}

\* `if county:`
Truthy(x) ==
    CASE x.type = "NoneType" -> FALSE
      [] x.type = "str" -> x.val[1].repr # ""
      [] x.type = "int" -> x.val[1].repr # "0"
      [] OTHER -> Len(x.val) > 0

isinstance(x, t) == x.type = t

\* Series.isin(values) on a column of str cells
isin(cell, values) ==
    \E i \in DOMAIN values : values[i].type = "str" /\ values[i].repr = cell

\* Series == s on a column of str cells
eq(cell, s) == cell = s.val[1].repr

\* Series.str.len()
len(code) == Len(code)

\* Series.str.contains(ch)
contains(code, ch) == \E i \in DOMAIN code : code[i] = ch

\* the rows of a frame at the positions where a boolean mask is true, in order
RECURSIVE take(_, _)
take(rows, mask) ==
    IF rows = <<>> THEN <<>>
    ELSE (IF Head(mask) THEN <<Head(rows)>> ELSE <<>>) \o take(Tail(rows), Tail(mask))

\* frame[mask]: a new frame with the rows the boolean Series selects
getitem(frame, mask) ==
    [columns |-> frame.columns, rows |-> take(frame.rows, mask)]

Return(frame) == [raised |-> NoError, frame |-> frame]
Raise(e) == [raised |-> e, frame |-> NoDataset]

\* the str branch comparing with !=
get_county_of_ne(frame, county) ==
    IF isinstance(county, "list")
    THEN Return(getitem(frame, [i \in DOMAIN frame.rows |-> isin(frame.rows[i].county, county.val)]))
    ELSE IF isinstance(county, "str")
    THEN Return(getitem(frame, [i \in DOMAIN frame.rows |-> ~eq(frame.rows[i].county, county)]))
    ELSE Raise("TypeError")

\* the body of get_county
get_county_of(frame, county) ==
    IF isinstance(county, "list")
    THEN Return(getitem(frame, [i \in DOMAIN frame.rows |-> isin(frame.rows[i].county, county.val)]))
    ELSE IF isinstance(county, "str")
    THEN Return(getitem(frame, [i \in DOMAIN frame.rows |-> eq(frame.rows[i].county, county)]))
    ELSE Raise("TypeError")

\* the `if county: ... else: return digits` tail of two_digit, three_digit, four_digit
county_tail(digits, county) ==
    IF Truthy(county)
    THEN IF isinstance(county, "list")
         THEN Return(getitem(digits, [i \in DOMAIN digits.rows |-> isin(digits.rows[i].county, county.val)]))
         ELSE IF isinstance(county, "str")
         THEN Return(getitem(digits, [i \in DOMAIN digits.rows |-> eq(digits.rows[i].county, county)]))
         ELSE Raise("TypeError")
    ELSE Return(digits)

\* the range tokens forgotten
two_digit_mask_lenOnly(code) == len(code) = 2

two_digit_mask(code) == len(code) = 2 \/ contains(code, "-")

\* the all-industries row forgotten
three_digit_mask_lenOnly(code) == len(code) = 3

three_digit_mask(code) == len(code) = 3 \/ code = <<"0", "0">>
four_digit_mask(code) == len(code) = 4 \/ code = <<"0", "0">>

two_digit_of(frame, county) ==
    county_tail(getitem(frame, [i \in DOMAIN frame.rows |-> two_digit_mask(frame.rows[i].NAICS2012)]), county)
three_digit_of(frame, county) ==
    county_tail(getitem(frame, [i \in DOMAIN frame.rows |-> three_digit_mask(frame.rows[i].NAICS2012)]), county)
four_digit_of(frame, county) ==
    county_tail(getitem(frame, [i \in DOMAIN frame.rows |-> four_digit_mask(frame.rows[i].NAICS2012)]), county)

\* character codes, for the order of the group keys
ord(c) == IF c = "-" THEN 45 ELSE 48 + DigitVal[c]

RECURSIVE StrLess(_, _)
StrLess(a, b) ==
    IF b = <<>> THEN FALSE
    ELSE IF a = <<>> THEN TRUE
    ELSE IF ord(a[1]) # ord(b[1]) THEN ord(a[1]) < ord(b[1])
    ELSE StrLess(Tail(a), Tail(b))

\* the group keys of groupby(by='NAICS2012'), sorted
RECURSIVE SortKeys(_)
SortKeys(S) ==
    IF S = {} THEN <<>>
    ELSE LET m == CHOOSE x \in S : \A y \in S : x = y \/ StrLess(x, y)
         IN  <<m>> \o SortKeys(S \ {m})

\* 'sum' of one column over the rows of one group
RECURSIVE sum(_, _, _)
sum(rows, code, col) ==
    IF rows = <<>> THEN 0
    ELSE (IF Head(rows).NAICS2012 = code THEN Head(rows)[col] ELSE 0) + sum(Tail(rows), code, col)

\* ESTAB aggregated with 'count'
agg_count(rows, code) ==
    [NAICS2012 |-> code, EMP |-> sum(rows, code, "EMP"),
     ESTAB |-> Len(SelectSeq(rows, LAMBDA r : r.NAICS2012 = code))]

\* grouped.agg({'EMP': 'sum', 'ESTAB': 'sum'}): NAICS2012 is the index of the result
agg(rows, code) ==
    [NAICS2012 |-> code, EMP |-> sum(rows, code, "EMP"), ESTAB |-> sum(rows, code, "ESTAB")]

total_of(frame) ==
    LET keys == SortKeys({frame.rows[i].NAICS2012 : i \in DOMAIN frame.rows})
    IN  Return([columns |-> {"EMP", "ESTAB"},
                rows |-> [i \in DOMAIN keys |-> agg(frame.rows, keys[i])]])

----------------------------------------------------------------------------
(* Inputs of QSpec *)

NaicsCodes ==
    {<<"0", "0">>, <<"1", "1">>, <<"1", "1", "3">>, <<"1", "1", "3", "3">>,
     <<"3", "1", "-", "3", "3">>, <<"1", "-", "3">>, <<"1", "-", "3", "3">>}

\* one county reports 5 employees in 1 establishment, the other 7 in 2
CountyCounts ==
    {[county |-> "013", EMP |-> 5, ESTAB |-> 1], [county |-> "015", EMP |-> 7, ESTAB |-> 2]}

QueryRows ==
    {[county |-> k.county, NAICS2012 |-> n, EMP |-> k.EMP, ESTAB |-> k.ESTAB] :
        n \in NaicsCodes, k \in CountyCounts}

\* the industry codes of the worked examples, one row each
ExampleCodes ==
    <<(<<"0", "0">>), (<<"1", "1">>), (<<"1", "1", "3">>), (<<"1", "1", "3", "3">>),
      (<<"3", "1", "-", "3", "3">>)>>

ExampleRows ==
    {[i \in DOMAIN ExampleCodes |->
        [county |-> cs[i], NAICS2012 |-> ExampleCodes[i], EMP |-> 5, ESTAB |-> 1]] :
        cs \in [DOMAIN ExampleCodes -> {"013", "015"}]}

QueryFrames ==
    {[columns |-> Columns, rows |-> r] : r \in SeqsUpTo(QueryRows, MaxQueryRows) \cup ExampleRows}

\* a Counties object read from a csv file
QInit ==
    /\ read_from = "csv"
    /\ key = PyNone
    /\ filepath = "cbp.csv"
    /\ impute_emp = TRUE
    /\ pc = "done"
    /\ err = NoError
    /\ netCalls = 0
    /\ fileReads = 1
    /\ req = [status_code |-> 0, body |-> <<>>]
    /\ self \in QueryFrames
    /\ csv = self
    /\ call = NoCall
    /\ result = NoDataset
    /\ raised = NoError

----------------------------------------------------------------------------
(* The query methods *)

Returns(op, county, outcome) ==
    /\ call' = [op |-> op, county |-> county]
    /\ result' = outcome.frame
    /\ raised' = outcome.raised

\* the filter applied in place
get_county_inplace(county) ==
    /\ pc = "done"
    /\ Returns("get_county", county, get_county_of(self, county))
    /\ self' = get_county_of(self, county).frame
    /\ UNCHANGED initVars

get_county(county) ==
    /\ pc = "done"
    /\ Returns("get_county", county, get_county_of(self, county))
    /\ UNCHANGED self
    /\ UNCHANGED initVars

two_digit(county) ==
    /\ pc = "done"
    /\ Returns("two_digit", county, two_digit_of(self, county))
    /\ UNCHANGED self
    /\ UNCHANGED initVars

three_digit(county) ==
    /\ pc = "done"
    /\ Returns("three_digit", county, three_digit_of(self, county))
    /\ UNCHANGED self
    /\ UNCHANGED initVars

four_digit(county) ==
    /\ pc = "done"
    /\ Returns("four_digit", county, four_digit_of(self, county))
    /\ UNCHANGED self
    /\ UNCHANGED initVars

total ==
    /\ pc = "done"
    /\ Returns("total", None, total_of(self))
    /\ UNCHANGED self
    /\ UNCHANGED initVars

QNext ==
    \/ \E county \in Selectors : get_county(county)
    \/ \E county \in Selectors : two_digit(county)
    \/ \E county \in Selectors : three_digit(county)
    \/ \E county \in Selectors : four_digit(county)
    \/ total

QSpec == QInit /\ [][QNext]_vars

----------------------------------------------------------------------------
(* Properties of Counties.__init__ (Spec) *)

Ended == pc \in {"done", "failed"}

TableFlags == DOMAIN emp_imputation

\* the response arrived with a success status and __init__ has ended
ApiResponseHandled == Ended /\ read_from = "api" /\ req.status_code = 200

\* C1: after API-mode construction with impute_emp true, every row whose flag
\* is one of the twelve table codes, a row with a blank source employment
\* included, has the table value as employment, every row without a flag keeps
\* its source employment, and the Dataset has no flag column.
C1_FlaggedRowsImputed ==
    ( /\ ApiResponseHandled
      /\ impute_emp
      /\ \A i \in DOMAIN req.body :
            /\ req.body[i].EMP_F \in TableFlags \cup {""}
            /\ req.body[i].EMP_F = "" => IsIntLiteral(req.body[i].EMP) )
    => /\ pc = "done"
       /\ "EMP_F" \notin self.columns
       /\ Len(self.rows) = Len(req.body)
       /\ \A i \in DOMAIN req.body :
            /\ "EMP_F" \notin DOMAIN self.rows[i]
            /\ self.rows[i].EMP =
                 IF req.body[i].EMP_F \in TableFlags
                 THEN emp_imputation[req.body[i].EMP_F]
                 ELSE int(req.body[i].EMP)

NoFlagColumn(frame) ==
    /\ "EMP_F" \notin frame.columns
    /\ \A i \in DOMAIN frame.rows : "EMP_F" \notin DOMAIN frame.rows[i]

EmploymentPopulated(frame) ==
    \A i \in DOMAIN frame.rows : frame.rows[i].EMP \in Nat

\* C2 (as stated): after every construction that succeeds, in API mode or in
\* FILE mode with any input table, the Dataset has no employment-flag column
\* and every row has a concrete employment count.
C2_AnySourceNoFlagColumn ==
    pc = "done" => NoFlagColumn(self) /\ EmploymentPopulated(self)

\* C2 (amended): after every API-mode construction that succeeds, with
\* impute_emp true or false, the Dataset has no employment-flag column and
\* every row has a concrete employment count, the reported one or the table
\* value of the row's flag; after a FILE-mode construction the Dataset is the
\* table of the file, unchanged.
C2_ApiNoFlagColumn ==
    pc = "done" =>
        IF read_from = "api"
        THEN /\ NoFlagColumn(self)
             /\ EmploymentPopulated(self)
             /\ Len(self.rows) = Len(req.body)
             /\ \A i \in DOMAIN req.body :
                    \/ self.rows[i].EMP = int(req.body[i].EMP)
                    \/ /\ req.body[i].EMP_F \in TableFlags
                       /\ self.rows[i].EMP = emp_imputation[req.body[i].EMP_F]
        ELSE self = csv

C2_Witness ==
    /\ pc = "done"
    /\ read_from = "api"
    /\ ~impute_emp
    /\ \E i \in DOMAIN req.body : req.body[i].EMP_F \in TableFlags

BadConfig ==
    \/ read_from = "api" /\ Falsy(key)
    \/ read_from = "csv" /\ Falsy(filepath)
    \/ read_from \notin {"api", "csv"}

ConfigurationErrors ==
    {"ValueError: must provide API key", "ValueError: must provide path to file",
     "ValueError: valid options are api and csv"}

\* C7: a construction that lacks the parameter its mode requires, or names a
\* mode other than api and csv, fails with a configuration error, produces no
\* Dataset, and has issued no network call and no file read.
C7_ConfigurationError ==
    (BadConfig /\ pc # "start") =>
        /\ pc = "failed"
        /\ err \in ConfigurationErrors
        /\ self = NoDataset
        /\ netCalls = 0
        /\ fileReads = 0

C7_Witness ==
    /\ pc = "failed"
    /\ read_from = "api"
    /\ key = ""
    /\ err = "ValueError: must provide API key"

\* C8: in API mode with a key, construction issues exactly one HTTP GET on
\* every path and never a second; a failure status aborts construction at
\* once, with no retry and no Dataset; FILE mode issues no network call.
C8_ExactlyOneGet ==
    /\ netCalls <= 1
    /\ pc \in {"start", "get"} => netCalls = 0
    /\ (read_from = "api" /\ ~Falsy(key) /\ pc \notin {"start", "get"}) => netCalls = 1
    /\ read_from # "api" => netCalls = 0
    /\ (HTTPError(req.status_code) /\ pc # "raise_for_status") =>
            /\ pc = "failed"
            /\ err = "SystemExit"
            /\ self = NoDataset

C8_Witness ==
    /\ pc = "failed"
    /\ err = "SystemExit"
    /\ HTTPError(req.status_code)
    /\ netCalls = 1

----------------------------------------------------------------------------
(* Properties of the query methods (QSpec) *)

Code00 == <<"0", "0">>
Code11 == <<"1", "1">>
Code113 == <<"1", "1", "3">>
Code31to33 == <<"3", "1", "-", "3", "3">>

CodesOf(frame) == {frame.rows[i].NAICS2012 : i \in DOMAIN frame.rows}

\* the Dataset of the worked examples: codes 00, 11, 113, 1133, 31-33
IsExample(frame) ==
    /\ Len(frame.rows) = Len(ExampleCodes)
    /\ CodesOf(frame) = {ExampleCodes[i] : i \in DOMAIN ExampleCodes}

\* the rows of a frame with a code in S, in order, under the frame's columns
RowsWithCode(frame, S) ==
    [columns |-> frame.columns, rows |-> SelectSeq(frame.rows, LAMBDA r : r.NAICS2012 \in S)]

Called(op, county) == call = [op |-> op, county |-> county]

\* C3 (as stated): select_two_digit() with no county selector on the codes
\* {00, 11, 113, 1133, 31-33} returns exactly the rows with codes {11, 31-33}.
C3_TwoDigitExample ==
    (Called("two_digit", None) /\ IsExample(self)) =>
        /\ raised = NoError
        /\ result = RowsWithCode(self, {Code11, Code31to33})

\* C3 (amended): select_two_digit() with no county selector on the codes
\* {00, 11, 113, 1133, 31-33} returns exactly the rows with codes
\* {00, 11, 31-33}: the two-character sentinel 00 is returned too.
C3_TwoDigitExampleKeeps00 ==
    (Called("two_digit", None) /\ IsExample(self)) =>
        /\ raised = NoError
        /\ result = RowsWithCode(self, {Code00, Code11, Code31to33})

C3_Witness ==
    /\ Called("two_digit", None)
    /\ IsExample(self)
    /\ Len(result.rows) = 3

IsRangeToken(code) == \E i \in 1..Len(code) : code[i] = "-"

ViewName(n) == CASE n = 2 -> "two_digit" [] n = 3 -> "three_digit" [] n = 4 -> "four_digit"

\* the retention rule of the digit-length view for n
Retained(n, code) ==
    \/ Len(code) = n
    \/ code = Code00
    \/ n = 2 /\ IsRangeToken(code)

RetainedRows(n) ==
    [columns |-> self.columns, rows |-> SelectSeq(self.rows, LAMBDA r : Retained(n, r.NAICS2012))]

\* C4 (as stated): the view for n in {2, 3, 4}, with no county selector,
\* retains a row iff its code has exactly n characters, or is 00, or, for
\* n = 2, is a range token; a range token is never retained by the three-digit
\* or four-digit view; select_three_digit() on {00, 11, 113, 1133, 31-33}
\* returns exactly {00, 113}.
C4_DigitViews ==
    \A n \in {2, 3, 4} :
        Called(ViewName(n), None) =>
            /\ raised = NoError
            /\ result = RetainedRows(n)
            /\ n # 2 => \A i \in DOMAIN result.rows : ~IsRangeToken(result.rows[i].NAICS2012)
            /\ (n = 3 /\ IsExample(self)) => result = RowsWithCode(self, {Code00, Code113})

\* C4 (amended): the view for n in {2, 3, 4}, with no county selector,
\* retains a row iff its code has exactly n characters, or is 00, or, for
\* n = 2, is a range token; the three-digit (four-digit) view retains a range
\* token exactly when the token has three (four) characters, so never a token
\* of the form 31-33; select_three_digit() on {00, 11, 113, 1133, 31-33}
\* returns exactly {00, 113}.
C4_DigitViewsByLength ==
    \A n \in {2, 3, 4} :
        Called(ViewName(n), None) =>
            /\ raised = NoError
            /\ result = RetainedRows(n)
            /\ n # 2 =>
                \A i \in DOMAIN self.rows :
                    IsRangeToken(self.rows[i].NAICS2012) =>
                        ( (\E j \in DOMAIN result.rows : result.rows[j] = self.rows[i])
                          <=> Len(self.rows[i].NAICS2012) = n )
            /\ (n = 3 /\ IsExample(self)) => result = RowsWithCode(self, {Code00, Code113})

C4_Witness ==
    /\ Called("three_digit", None)
    /\ IsExample(self)
    /\ Len(result.rows) = 2

\* the county codes a selector names
CountiesOf(sel) == {sel.val[i].repr : i \in {j \in DOMAIN sel.val : sel.val[j].type = "str"}}

AllStrings(sel) == \A i \in DOMAIN sel.val : sel.val[i].type = "str"

RowsOfCounties(frame, S) ==
    [columns |-> frame.columns, rows |-> SelectSeq(frame.rows, LAMBDA r : r.county \in S)]

\* C5 (as stated): filter_by_county(selector) returns exactly the rows whose
\* county equals a single-code selector or is a member of a list or set
\* selector, in order and with the same columns; it fails with a type error
\* exactly when the selector is neither a string nor a list/set of strings.
C5_FilterByCounty ==
    call.op = "get_county" =>
        LET sel == call.county
            valid == sel.type = "str" \/ (sel.type \in {"list", "set"} /\ AllStrings(sel))
        IN  /\ raised = "TypeError" <=> ~valid
            /\ valid => raised = NoError /\ result = RowsOfCounties(self, CountiesOf(sel))

\* C5 (amended): filter_by_county(selector) returns exactly the rows whose
\* county equals a single-code selector or is a member of a list selector, in
\* order and with the same columns; it fails with a type error exactly when
\* the selector is neither a string nor a list: a set fails, and a list
\* holding values that are not strings does not fail, those values match no row.
C5_FilterByCountyStrOrList ==
    call.op = "get_county" =>
        LET sel == call.county
            valid == sel.type \in {"str", "list"}
        IN  /\ raised = "TypeError" <=> ~valid
            /\ ~valid => result = NoDataset
            /\ valid => raised = NoError /\ result = RowsOfCounties(self, CountiesOf(sel))

C5_Witness ==
    /\ Called("get_county", PyStr("013"))
    /\ Len(self.rows) = 2
    /\ self.rows[1].county = "015"
    /\ self.rows[2].county = "013"
    /\ result.rows = <<self.rows[2]>>

RECURSIVE SumOver(_, _, _)
SumOver(frame, I, col) ==
    IF I = {} THEN 0
    ELSE LET i == CHOOSE j \in I : TRUE
         IN  frame.rows[i][col] + SumOver(frame, I \ {i}, col)

RowsOf(frame, code) == {i \in DOMAIN frame.rows : frame.rows[i].NAICS2012 = code}

\* C6: totals() returns exactly one row per distinct industry code of the
\* Dataset and none for an absent code; its employment and establishments
\* are the sums over the input rows with that code.
C6_Totals ==
    call.op = "total" =>
        /\ raised = NoError
        /\ Len(result.rows) = Cardinality(CodesOf(self))
        /\ {result.rows[i].NAICS2012 : i \in DOMAIN result.rows} = CodesOf(self)
        /\ \A i \in DOMAIN result.rows :
              /\ result.rows[i].EMP = SumOver(self, RowsOf(self, result.rows[i].NAICS2012), "EMP")
              /\ result.rows[i].ESTAB = SumOver(self, RowsOf(self, result.rows[i].NAICS2012), "ESTAB")

C6_Witness ==
    /\ call.op = "total"
    /\ Len(self.rows) = 2
    /\ \A i \in DOMAIN self.rows : self.rows[i].NAICS2012 = Code11
    /\ {self.rows[i].EMP : i \in DOMAIN self.rows} = {5, 7}
    /\ {self.rows[i].ESTAB : i \in DOMAIN self.rows} = {1, 2}
    /\ result.rows = <<[NAICS2012 |-> Code11, EMP |-> 12, ESTAB |-> 3]>>

\* C9: after construction the Dataset is immutable: after any sequence of
\* query calls, failing ones included, its rows, row order, columns and
\* values are those it had right after construction.
C9_DatasetUnchanged ==
    call.op # "none" => self = csv

C9_Witness ==
    /\ call.op = "get_county"
    /\ raised = "TypeError"
    /\ Len(self.rows) = 2

ViewOf(op, frame, county) ==
    CASE op = "two_digit" -> two_digit_of(frame, county)
      [] op = "three_digit" -> three_digit_of(frame, county)
      [] op = "four_digit" -> four_digit_of(frame, county)

\* C10: for each digit-length view and every county selector that is given,
\* the empty string, the empty list and the integer 0 included, the view
\* called with the selector gives the same rows, or the same type error, as
\* filter_by_county with that selector on the view called with no selector.
C10_ViewThenFilter ==
    (call.op \in {"two_digit", "three_digit", "four_digit"} /\ call.county # None) =>
        LET expected == get_county_of(ViewOf(call.op, self, None).frame, call.county)
        IN  /\ raised = expected.raised
            /\ result = expected.frame

====
